---- MODULE Spec2Model ----
(***************************************************************************)
(* phlask: the album access-control tree (src/utils/library.py, with the   *)
(* older variant src/phlask/tree.py) and the handlers of src/app.py that   *)
(* build, publish and query it.                                            *)
(*                                                                         *)
(* An album is a path relative to the library root, modelled as the        *)
(* sequence of its segments: path('') is << >>, path('a/c') is <<"a","c">>.*)
(***************************************************************************)
EXTENDS Naturals, Integers, Sequences, FiniteSets, TLC

VARIABLES
    disk,        \* the directory tree under original_dir: album -> album.yml
    build,       \* the Library under construction inside library_setup
    library,     \* app.config['library']
    built_from,  \* the manifests the published library was read from
    source,      \* the media under original_dir: medium -> mtime
    thumbs,      \* the files under thumbnail_dir: thumbnail path -> mtime
    clock,       \* the time of the file system
    resp,        \* outcome of the last request handled
    images,      \* what PIL reads from a medium: EXIF orientation and size
    handlers,    \* the thumbnail requests being handled concurrently
    content      \* what the files under thumbnail_dir hold: how much of an
                 \* image, or the image of which medium

vars == <<disk, build, library, built_from, source, thumbs, clock, resp,
          images, handlers, content>>

----------------------------------------------------------------------------
(* Bounds and universes                                                    *)

\* total number of users/groups entries over all album.yml files
MaxGrants == 2
\* number of Library objects constructed (process start + reloads)
MaxLibraries == 2
\* last instant of the file system clock
MaxClock == 2

\* Library.__init__(..., thumbnail=200, display=600)
thumb_height == 200
display_height == 600

Users == {"alice", "bob"}
Groups == {"g1"}

Root == << >>

\* the directories under original_dir
AllDirs == { << >>, <<"a">>, <<"b">>, <<"a", "c">>, <<"a", "d">>,
             <<"a", "c", "e">> }

\* position of a basename in Python's string order
NameRank == [n \in {"a", "b", "c", "d", "e"} |->
               CASE n = "a" -> 1 [] n = "b" -> 2 [] n = "c" -> 3
                 [] n = "d" -> 4 [] n = "e" -> 5]

\* principals: flask-security's current_user (email, has_role('admin')) and,
\* for the variant of tree.py, the groups the user belongs to
AllPrincipals == [email : Users \cup {"nobody"}, admin : BOOLEAN,
                  groups : SUBSET Groups]

\* the principals that issue requests
Visitors == { [email |-> "alice", admin |-> FALSE, groups |-> {}],
              [email |-> "bob", admin |-> FALSE, groups |-> {"g1"}],
              [email |-> "root", admin |-> TRUE, groups |-> {}] }

NoPrincipal == [email |-> "", admin |-> FALSE, groups |-> {}]

\* the user 'root' that create_root_user gives the admin role
Administrator == [email |-> "root", admin |-> TRUE, groups |-> {}]

----------------------------------------------------------------------------
(* The directory tree on disk                                              *)

\* one entry of a users: or groups: list of some album.yml
Slots == [dir : AllDirs, kind : {"u"}, who : Users]
           \cup [dir : AllDirs, kind : {"g"}, who : Groups]

RECURSIVE SlotSetsUpTo(_)
SlotSetsUpTo(n) ==
    IF n = 0 THEN { {} }
    ELSE LET T == SlotSetsUpTo(n - 1)
         IN  T \cup { t \cup {s} : t \in T, s \in Slots }

\* the album.yml has no name: key
NoName == ""

\* isfile: the directory holds an album.yml; yaml: what yaml.load makes of it
\* ("mapping", "empty" for None, "malformed" for a YAMLError); name: its
\* name: key; files: the files of the directory, album.yml apart, in the
\* order directory.files() lists them; yml_at: how many of them are listed
\* before album.yml
DiskOf(S) ==
    [d \in AllDirs |->
        [isfile |-> \E x \in S : x.dir = d,
         yaml   |-> "mapping",
         name   |-> NoName,
         files  |-> << >>,
         yml_at |-> 0,
         users  |-> { s.who : s \in { x \in S : x.dir = d /\ x.kind = "u" } },
         groups |-> { s.who : s \in { x \in S : x.dir = d /\ x.kind = "g" } }]]

Disks == { DiskOf(S) : S \in SlotSetsUpTo(MaxGrants) }

\* path.dirname / the unique predecessor directory
Parent(d) == SubSeq(d, 1, Len(d) - 1)

\* directory.dirs(): the subdirectories of root/album
dirs(d, album) == { s \in DOMAIN d : Len(s) = Len(album) + 1 /\ Parent(s) = album }

\* path.basename(); the root is original_dir itself
RootName == "photos"
basename(directory) ==
    IF directory = Root THEN RootName ELSE directory[Len(directory)]

----------------------------------------------------------------------------
(* Media of a directory                                                    *)

\* a medium is a relative path: album, basename without extension, extension
Medium(album, stem, ext) == [dir |-> album, stem |-> stem, ext |-> ext]

PHOTO_SUPPORTED == { ".jpg", ".jpeg", ".png" }
VIDEO_SUPPORTED == { ".mp4", ".webm", ".ogv" }

\* the extensions of the files on disk
Exts == { ".jpg", ".JPG", ".jpeg", ".png", ".Png", ".mp4", ".webm", ".ogv",
          ".OGV", ".gif", ".txt", "" }

\* str.lower() on these extensions
lower(ext) ==
    CASE ext = ".JPG" -> ".jpg"
      [] ext = ".Png" -> ".png"
      [] ext = ".OGV" -> ".ogv"
      [] OTHER -> ext

\* mutant of _supported: the extension is compared as it is spelled
_supported_as_spelled(medium) ==
    medium.ext \in PHOTO_SUPPORTED \/ medium.ext \in VIDEO_SUPPORTED

\* Library._supported
_supported(medium) ==
    LET ext == lower(medium.ext)
    IN  ext \in PHOTO_SUPPORTED \/ ext \in VIDEO_SUPPORTED

ALBUM_YML == [stem |-> "album", ext |-> ".yml"]

\* directory.files(): every file of the directory, album.yml included, in
\* the order of os.listdir, where album.yml comes at any place
directory_files(d, album) ==
    LET fs == d[album].files
        k  == d[album].yml_at
    IN  IF d[album].isfile
        THEN SubSeq(fs, 1, k) \o <<ALBUM_YML>> \o SubSeq(fs, k + 1, Len(fs))
        ELSE fs

\* path.joinpath(album, m.basename()) for each m of a list of files
RECURSIVE joinpath(_, _)
joinpath(album, ms) ==
    IF ms = << >> THEN << >>
    ELSE <<Medium(album, Head(ms).stem, Head(ms).ext)>>
           \o joinpath(album, Tail(ms))

\* Library._media: the supported files, in the order directory.files()
\* lists them
_media(d, album) ==
    joinpath(album, SelectSeq(directory_files(d, album), _supported))

----------------------------------------------------------------------------
(* Library: construction                                                   *)

\* Library._load_yaml raises: yaml.load fails on a malformed album.yml, and
\* returns None for an empty one, on which "'name' in content" fails
_load_yaml_raises(d, directory) ==
    d[directory].isfile /\ d[directory].yaml \in {"malformed", "empty"}

\* mutant of _load_yaml_name: the name: key is ignored
_load_yaml_basename(d, directory) == basename(directory)

\* Library._load_yaml, config['name']
_load_yaml_name(d, directory) ==
    IF d[directory].isfile /\ d[directory].name # NoName
    THEN d[directory].name
    ELSE basename(directory)

\* Library._load_yaml: the defaults, overridden by the keys of album.yml
_load_yaml(d, directory) ==
    IF d[directory].isfile
    THEN [users |-> d[directory].users, groups |-> d[directory].groups]
    ELSE [users |-> {}, groups |-> {}]

predecessors(G, album) == { e[1] : e \in { x \in DOMAIN G.edge : x[2] = album } }

successors(G, album) == { e[2] : e \in { x \in DOMAIN G.edge : x[1] = album } }

\* mutant of _back_propagate: the edge's sets are replaced by the new
\* principals instead of being united with them
RECURSIVE _back_propagate_assign(_, _, _, _)
_back_propagate_assign(G, album, new_users, new_groups) ==
    IF predecessors(G, album) = {} THEN G
    ELSE
      LET supalbum == CHOOSE p \in predecessors(G, album) : TRUE
          e      == G.edge[<<supalbum, album>>]
          addU   == (new_users \ e.users) # {}
          addG   == (new_groups \ e.groups) # {}
          users  == IF addU THEN new_users ELSE e.users
          groups == IF addG THEN new_groups ELSE e.groups
          G1     == [G EXCEPT !.edge[<<supalbum, album>>] =
                        [users |-> users, groups |-> groups]]
      IN  IF addU \/ addG
          THEN _back_propagate_assign(G1, supalbum, new_users, new_groups)
          ELSE G1

\* mutant of _back_propagate: only the edge right above album is updated
_back_propagate_one_level(G, album, new_users, new_groups) ==
    IF predecessors(G, album) = {} THEN G
    ELSE
      LET supalbum == CHOOSE p \in predecessors(G, album) : TRUE
          e      == G.edge[<<supalbum, album>>]
      IN  [G EXCEPT !.edge[<<supalbum, album>>] =
              [users |-> e.users \cup new_users,
               groups |-> e.groups \cup new_groups]]

\* mutant of _back_propagate: the new principals are also written to the
\* album nodes on the way up
RECURSIVE _back_propagate_nodes(_, _, _, _)
_back_propagate_nodes(G, album, new_users, new_groups) ==
    IF predecessors(G, album) = {} THEN G
    ELSE
      LET supalbum == CHOOSE p \in predecessors(G, album) : TRUE
          e      == G.edge[<<supalbum, album>>]
          addU   == (new_users \ e.users) # {}
          addG   == (new_groups \ e.groups) # {}
          users  == IF addU THEN e.users \cup new_users ELSE e.users
          groups == IF addG THEN e.groups \cup new_groups ELSE e.groups
          G1     == [G EXCEPT !.edge[<<supalbum, album>>] =
                        [users |-> users, groups |-> groups],
                              !.node[album] =
                        [users |-> @.users \cup new_users,
                         groups |-> @.groups \cup new_groups]]
      IN  IF addU \/ addG
          THEN _back_propagate_nodes(G1, supalbum, new_users, new_groups)
          ELSE G1

\* mutant of _back_propagate: new groups alone do not carry the
\* back-propagation further up
RECURSIVE _back_propagate_stop_on_groups(_, _, _, _)
_back_propagate_stop_on_groups(G, album, new_users, new_groups) ==
    IF predecessors(G, album) = {} THEN G
    ELSE
      LET supalbum == CHOOSE p \in predecessors(G, album) : TRUE
          e      == G.edge[<<supalbum, album>>]
          addU   == (new_users \ e.users) # {}
          addG   == (new_groups \ e.groups) # {}
          users  == IF addU THEN e.users \cup new_users ELSE e.users
          groups == IF addG THEN e.groups \cup new_groups ELSE e.groups
          G1     == [G EXCEPT !.edge[<<supalbum, album>>] =
                        [users |-> users, groups |-> groups]]
      IN  IF addU
          THEN _back_propagate_stop_on_groups(G1, supalbum, new_users, new_groups)
          ELSE G1

\* Library._back_propagate: each album has at most one predecessor, so the
\* for loop runs at most once
RECURSIVE _back_propagate(_, _, _, _)
_back_propagate(G, album, new_users, new_groups) ==
    IF predecessors(G, album) = {} THEN G
    ELSE
      LET supalbum == CHOOSE p \in predecessors(G, album) : TRUE
          e      == G.edge[<<supalbum, album>>]
          addU   == (new_users \ e.users) # {}
          addG   == (new_groups \ e.groups) # {}
          users  == IF addU THEN e.users \cup new_users ELSE e.users
          groups == IF addG THEN e.groups \cup new_groups ELSE e.groups
          G1     == [G EXCEPT !.edge[<<supalbum, album>>] =
                        [users |-> users, groups |-> groups]]
      IN  IF addU \/ addG
          THEN _back_propagate(G1, supalbum, new_users, new_groups)
          ELSE G1

\* mutant of inherit: the subdirectory's own manifest replaces what the
\* parent passes down
inherit_own_only(config, subconfig) ==
    [users |-> subconfig.users, groups |-> subconfig.groups]

\* Library._traverse, "inherit configuration dictionary from parent and
\* update it with subdirectory configuration"
inherit(config, subconfig) ==
    [users  |-> config.users \cup subconfig.users,
     groups |-> config.groups \cup subconfig.groups]

\* mutant of _traverse_body: the edge is given the subdirectory's own
\* manifest instead of the merged configuration
_traverse_body_own_edge(G, d, album, config, subdirectory) ==
    LET subconfig  == _load_yaml(d, subdirectory)
        new_users  == subconfig.users \ config.users
        new_groups == subconfig.groups \ config.groups
        G1         == _back_propagate(G, album, new_users, new_groups)
        merged     == inherit(config, subconfig)
        subalbum   == Append(album, subdirectory[Len(subdirectory)])
    IN  [node |-> (subalbum :> merged) @@ G1.node,
         edge |-> (<<album, subalbum>> :> subconfig) @@ G1.edge]

\* Library._traverse, one iteration of the loop on subdirectories, up to the
\* recursive call: G after the iteration
_traverse_body(G, d, album, config, subdirectory) ==
    LET subconfig  == _load_yaml(d, subdirectory)
        new_users  == subconfig.users \ config.users
        new_groups == subconfig.groups \ config.groups
        G1         == _back_propagate(G, album, new_users, new_groups)
        merged     == inherit(config, subconfig)
        subalbum   == Append(album, subdirectory[Len(subdirectory)])
    IN  [node |-> (subalbum :> merged) @@ G1.node,
         edge |-> (<<album, subalbum>> :> merged) @@ G1.edge]

\* the frames of _traverse whose loop still has subdirectories to visit
RECURSIVE Unwind(_)
Unwind(stack) ==
    IF stack = << >> THEN << >>
    ELSE IF Head(stack).todo = {} THEN Unwind(Tail(stack))
    ELSE stack

\* order: the albums in the order add_node inserted them
\* name, media: the name and media attributes of the nodes
Idle == [pc |-> "idle", id |-> 0, by |-> NoPrincipal,
         node |-> << >>, edge |-> << >>, order |-> << >>, stack |-> << >>,
         name |-> << >>, media |-> << >>]

NoLibrary == [id |-> 0, node |-> << >>, edge |-> << >>, order |-> << >>,
              name |-> << >>, media |-> << >>]

\* the constructor of Library raised: no object is returned and
\* app.config['library'] is not assigned; a later call of library_setup
\* constructs a new Library
Failed(b) == [b EXCEPT !.pc = "failed"]

\* Library.__init__ and _reset up to the call of _traverse: the root node
_reset(d, id, by) ==
    LET config == _load_yaml(d, Root)
        G      == [pc |-> "traverse", id |-> id, by |-> by,
                   node |-> (Root :> config), edge |-> << >>,
                   order |-> <<Root>>,
                   stack |-> Unwind(<< [album |-> Root, config |-> config,
                                        todo |-> dirs(d, Root)] >>),
                   name |-> (Root :> _load_yaml_name(d, Root)),
                   media |-> (Root :> _media(d, Root))]
    IN  IF _load_yaml_raises(d, Root)
        THEN Failed([Idle EXCEPT !.id = id, !.by = by])
        ELSE G

----------------------------------------------------------------------------
(* Library: queries (src/utils/library.py)                                 *)

\* Library.userIsAllowed: the test on groups is commented out in the source
userIsAllowed(config, current_user) ==
    current_user.email \in config.users \/ current_user.admin

\* mutant of userCanTraverseAlbum: the edge one level too high is consulted
userCanTraverseAlbum_parent(G, album, current_user) ==
    IF album = Root \/ Parent(album) = Root THEN TRUE
    ELSE userIsAllowed(G.edge[<<Parent(Parent(album)), Parent(album)>>],
                       current_user)

\* Library.userCanTraverseAlbum
userCanTraverseAlbum(G, album, current_user) ==
    IF album = Root THEN TRUE
    ELSE LET supalbum == CHOOSE p \in predecessors(G, album) : TRUE
         IN  userIsAllowed(G.edge[<<supalbum, album>>], current_user)

\* mutant of userCanBrowseAlbum: the edge above the album is consulted
userCanBrowseAlbum_edge(G, album, current_user) ==
    IF album = Root THEN TRUE
    ELSE userIsAllowed(G.edge[<<Parent(album), album>>], current_user)

\* Library.userCanBrowseAlbum
userCanBrowseAlbum(G, album, current_user) ==
    IF album = Root THEN TRUE
    ELSE userIsAllowed(G.node[album], current_user)

\* sorted(): albums of one parent, ordered by their basename
RECURSIVE sorted(_)
sorted(S) ==
    IF S = {} THEN << >>
    ELSE LET least == CHOOSE x \in S : \A y \in S :
                          NameRank[x[Len(x)]] <= NameRank[y[Len(y)]]
         IN  <<least>> \o sorted(S \ {least})

None == "None"

\* mutant of getAlbumSubAlbums: every sub-album is listed
getAlbumSubAlbums_unfiltered(G, album, current_user) ==
    IF ~userCanTraverseAlbum(G, album, current_user) THEN None
    ELSE sorted(successors(G, album))

\* Library.getAlbumSubAlbums
getAlbumSubAlbums(G, album, current_user) ==
    IF ~userCanTraverseAlbum(G, album, current_user) THEN None
    ELSE sorted({ subalbum \in successors(G, album) :
                    userIsAllowed(G.edge[<<album, subalbum>>], current_user) })

\* mutant of getSiblings: the album itself is left out
getSiblings_others(G, album) ==
    LET parent == CHOOSE p \in predecessors(G, album) : TRUE
    IN  sorted(successors(G, parent) \ {album})

\* Library.getSiblings, for an album that has a predecessor
getSiblings(G, album) ==
    LET parent == CHOOSE p \in predecessors(G, album) : TRUE
    IN  sorted(successors(G, parent))

\* nx.shortest_path(self, source=path(''), target=album): in a tree, the
\* albums from the root down to album
RECURSIVE shortest_path(_, _)
shortest_path(G, target) ==
    IF predecessors(G, target) = {} THEN <<target>>
    ELSE Append(shortest_path(G, CHOOSE p \in predecessors(G, target) : TRUE),
                target)

\* [(p, p.basename()) for p in albums]
RECURSIVE with_basename(_)
with_basename(albums) ==
    IF albums = << >> THEN << >>
    ELSE << <<Head(albums), basename(Head(albums))>> >>
           \o with_basename(Tail(albums))

\* mutant of getPathToAlbum: the path is handed out without the test
getPathToAlbum_unchecked(G, album, current_user) ==
    with_basename(Tail(shortest_path(G, album)))

\* Library.getPathToAlbum: the pairs (p, p.basename()), root left out
getPathToAlbum(G, album, current_user) ==
    IF ~userCanTraverseAlbum(G, album, current_user) THEN None
    ELSE with_basename(Tail(shortest_path(G, album)))

\* mutant of getAlbumMedia: traversal of the album is enough
getAlbumMedia_traverse(G, album, current_user) ==
    IF ~userCanTraverseAlbum(G, album, current_user) THEN None
    ELSE G.media[album]

\* Library.getAlbumMedia
getAlbumMedia(G, album, current_user) ==
    IF ~userCanBrowseAlbum(G, album, current_user) THEN None
    ELSE G.media[album]

----------------------------------------------------------------------------
(* Library: queries of the older variant (src/phlask/tree.py)              *)

\* Library.is_allowed(config, user, groups): no administrator override
is_allowed(config, user, groups) ==
    IF user \in config.users THEN TRUE
    ELSE IF groups # {} /\ (groups \cap config.groups) # {} THEN TRUE
    ELSE FALSE

\* Library.is_traversable
is_traversable(G, album, user, groups) ==
    IF album = Root THEN TRUE
    ELSE LET supalbum == CHOOSE p \in predecessors(G, album) : TRUE
         IN  is_allowed(G.edge[<<supalbum, album>>], user, groups)

\* Library.is_browsable
is_browsable(G, album, user, groups) ==
    IF album = Root THEN TRUE
    ELSE is_allowed(G.node[album], user, groups)

----------------------------------------------------------------------------
(* Thumbnailer (src/utils/thumbnail.py)                                    *)

\* Thumbnailer._absolute_path_to_thumbnail: thumbnail_dir/height/relative
\* path, its extension replaced by .jpg
_absolute_path_to_thumbnail(height, relative_path) ==
    [height |-> height, dir |-> relative_path.dir, stem |-> relative_path.stem,
     ext |-> ".jpg"]

EXIF_ORIENTATION_KEY == 274

ROTATE_BY == (1 :> 0) @@ (8 :> 90) @@ (3 :> 180) @@ (6 :> 270)
IS_LANDSCAPE == (1 :> TRUE) @@ (3 :> TRUE) @@ (8 :> FALSE) @@ (6 :> FALSE)

\* original._getexif(): None for an image without EXIF data, and otherwise
\* the dictionary of its tags
NoExif == [none |-> TRUE, tags |-> << >>]
Exif(tags) == [none |-> FALSE, tags |-> tags]

\* the values of the orientation tag
Orientations == 1 .. 8

\* original.size of the images, (width, height); on all of them
\* int(1. * self.height / height * width) is the integer quotient
Sizes == { <<400, 300>>, <<300, 400>>, <<800, 600>>, <<600, 800>>,
           <<4000, 3000>>, <<3000, 4000>> }

Images ==
    [exif : {NoExif, Exif(<< >>)}
              \cup { Exif(EXIF_ORIENTATION_KEY :> o) : o \in Orientations },
     size : Sizes]

\* an exception leaves _generate_thumbnail
Raised == [raised |-> TRUE]

\* Thumbnailer._generate_thumbnail: the angle of the rotation and the size
\* asked of original.thumbnail; exif.get raises when exif is None
_generate_thumbnail(original, self_height) ==
    IF original.exif.none THEN Raised
    ELSE
      LET exif      == original.exif.tags
          tagged    == EXIF_ORIENTATION_KEY \in DOMAIN exif
          angle     == IF tagged /\ exif[EXIF_ORIENTATION_KEY] \in DOMAIN ROTATE_BY
                       THEN ROTATE_BY[exif[EXIF_ORIENTATION_KEY]] ELSE 0
          landscape == IF tagged /\ exif[EXIF_ORIENTATION_KEY] \in DOMAIN IS_LANDSCAPE
                       THEN IS_LANDSCAPE[exif[EXIF_ORIENTATION_KEY]] ELSE TRUE
          width     == original.size[1]
          height    == original.size[2]
          size      == IF landscape
                       THEN <<(self_height * width) \div height, self_height>>
                       ELSE <<self_height, (self_height * height) \div width>>
      IN  [raised |-> FALSE, angle |-> angle, landscape |-> landscape,
           size |-> size]

\* the images of the media that are served: one with an orientation tag and
\* one without EXIF data
ServedImages ==
    { [exif |-> Exif(EXIF_ORIENTATION_KEY :> 1), size |-> <<400, 300>>],
      [exif |-> NoExif, size |-> <<400, 300>>] }

\* mutant of Fresh: a cached file as old as the original is recent enough
Fresh_not_strict(files, src, height, relative_path) ==
    LET thumbnail_path == _absolute_path_to_thumbnail(height, relative_path)
    IN  /\ files[thumbnail_path] > 0
        /\ files[thumbnail_path] >= src[relative_path]

\* Thumbnailer.__call__: is the cached file there and strictly newer
Fresh(files, src, height, relative_path) ==
    LET thumbnail_path == _absolute_path_to_thumbnail(height, relative_path)
    IN  /\ files[thumbnail_path] > 0
        /\ files[thumbnail_path] > src[relative_path]

\* Thumbnailer.__call__ raises: the cached file is not fresh and
\* _generate_thumbnail raises on the original, before anything is written
Thumbnailer_raises(files, src, originals, height, relative_path) ==
    /\ ~Fresh(files, src, height, relative_path)
    /\ _generate_thumbnail(originals[relative_path], height).raised

\* mutant of Thumbnailer: the thumbnail is generated at every call
Thumbnailer_always(files, src, originals, height, relative_path, now) ==
    IF _generate_thumbnail(originals[relative_path], height).raised THEN files
    ELSE [files EXCEPT
            ![_absolute_path_to_thumbnail(height, relative_path)] = now]

\* Thumbnailer.__call__: the files under thumbnail_dir after the call at
\* time now (mtime 0 stands for "no such file"); they are as before when
\* the cached file is fresh and when the call raises
Thumbnailer(files, src, originals, height, relative_path, now) ==
    IF Fresh(files, src, height, relative_path) THEN files
    ELSE IF Thumbnailer_raises(files, src, originals, height, relative_path)
    THEN files
    ELSE [files EXCEPT
            ![_absolute_path_to_thumbnail(height, relative_path)] = now]

\* mutant of userCanGetMedium: traversal of the album is enough
userCanGetMedium_traverse(G, medium, current_user) ==
    userCanTraverseAlbum(G, medium.dir, current_user)

\* Library.userCanGetMedium: medium.dirname() is the containing album
userCanGetMedium(G, medium, current_user) ==
    userCanBrowseAlbum(G, medium.dir, current_user)

----------------------------------------------------------------------------
(* Building and publishing the library (src/app.py, library_setup)         *)

NoResponse == [kind |-> "none"]

Published == library # NoLibrary

\* process start, app.py line 103: library_setup constructs the Library; an
\* exception of the constructor ends the process
Start ==
    /\ build.pc = "idle"
    /\ library = NoLibrary
    /\ build' = _reset(disk, 1, NoPrincipal)
    /\ UNCHANGED <<images, handlers, content,
                   disk, library, built_from, source, thumbs, clock, resp>>

\* one iteration of the loop of _traverse in the Library under construction:
\* directory.dirs() enumerates in no particular order
TraverseStep ==
    /\ build.pc = "traverse"
    /\ build.stack # << >>
    /\ LET f == Head(build.stack)
       IN  \E subdirectory \in f.todo :
             LET G  == _traverse_body([node |-> build.node, edge |-> build.edge],
                                      disk, f.album, f.config, subdirectory)
                 callee == [album  |-> subdirectory,
                            config |-> G.node[subdirectory],
                            todo   |-> dirs(disk, subdirectory)]
                 caller == [f EXCEPT !.todo = @ \ {subdirectory}]
             IN  build' =
                   IF _load_yaml_raises(disk, subdirectory)
                   THEN Failed(build)
                   ELSE [build EXCEPT
                           !.node = G.node,
                           !.edge = G.edge,
                           !.order = Append(@, subdirectory),
                           !.stack = Unwind(<<callee, caller>>
                                              \o Tail(build.stack)),
                           !.name = (subdirectory :>
                                       _load_yaml_name(disk, subdirectory)) @@ @,
                           !.media = (subdirectory :>
                                        _media(disk, subdirectory)) @@ @]
    /\ UNCHANGED <<images, handlers, content,
                   disk, library, built_from, source, thumbs, clock, resp>>

\* mutant of Constructed: the object is handed out as soon as _reset has
\* started (a rebuild in place of the published object)
Constructed_early(b) == b.pc = "traverse"

\* has Library.__init__ returned
Constructed(b) == b.pc = "traverse" /\ b.stack = << >>

\* library_setup: app.config['library'] = library, once the constructor has
\* returned
library_setup ==
    /\ Constructed(build)
    /\ library' = [id |-> build.id, node |-> build.node, edge |-> build.edge,
                    order |-> build.order, name |-> build.name,
                    media |-> build.media]
    /\ built_from' = disk
    /\ build' = Idle
    /\ UNCHANGED <<images, handlers, content,
                   disk, source, thumbs, clock, resp>>

\* the reload handler lets in whoever passed @login_required
MayReload(current_user) == TRUE

\* GET /admin/reload by an authenticated current_user: library_setup starts
\* constructing a new Library, whether or not an earlier construction raised
reload(current_user) ==
    /\ build.pc \in {"idle", "failed"}
    /\ library # NoLibrary
    /\ library.id < MaxLibraries
    /\ MayReload(current_user)
    /\ build' = _reset(disk, library.id + 1, current_user)
    /\ UNCHANGED <<images, handlers, content,
                   disk, library, built_from, source, thumbs, clock, resp>>

Init ==
    /\ disk \in Disks
    /\ build = Idle
    /\ library = NoLibrary
    /\ built_from = disk
    /\ source = << >>
    /\ thumbs = << >>
    /\ clock = 1
    /\ resp = NoResponse
    /\ images = << >>
    /\ handlers = << >>
    /\ content = << >>

Next ==
    \/ Start
    \/ TraverseStep
    \/ library_setup
    \/ reload(Administrator)

Spec == Init /\ [][Next]_vars

----------------------------------------------------------------------------
(* Reloading while requests are served                                     *)

\* the entries that are added to and removed from the manifests between
\* two reloads
EditSlots ==
    { [dir |-> <<"a", "c", "e">>, kind |-> "u", who |-> "alice"],
      [dir |-> <<"a", "d">>, kind |-> "u", who |-> "bob"] }

\* the album pages that are requested
Pages == { Root, <<"a">> }

\* an album.yml is edited on disk: one entry is added or removed (the file
\* goes with its last entry); no scan is in progress
EditManifest(s) ==
    /\ build.pc = "idle"
    /\ Published
    /\ library.id < MaxLibraries
    /\ LET users  == IF s.kind # "u" THEN disk[s.dir].users
                     ELSE IF s.who \in disk[s.dir].users
                     THEN disk[s.dir].users \ {s.who}
                     ELSE disk[s.dir].users \cup {s.who}
           groups == IF s.kind # "g" THEN disk[s.dir].groups
                     ELSE IF s.who \in disk[s.dir].groups
                     THEN disk[s.dir].groups \ {s.who}
                     ELSE disk[s.dir].groups \cup {s.who}
       IN  disk' = [disk EXCEPT ![s.dir] =
                      [@ EXCEPT !.isfile = users # {} \/ groups # {},
                                !.users = users, !.groups = groups]]
    /\ UNCHANGED <<images, handlers, content,
                   build, library, built_from, source, thumbs, clock, resp>>

\* the directory whose album.yml is damaged and restored
Damaged == <<"a">>

\* the album.yml of one directory is overwritten with text that is not YAML;
\* no scan is in progress
DamageManifest ==
    /\ build.pc \in {"idle", "failed"}
    /\ Published
    /\ library.id < MaxLibraries
    /\ ~disk[Damaged].isfile
    /\ disk' = [disk EXCEPT ![Damaged] =
                  [@ EXCEPT !.isfile = TRUE, !.yaml = "malformed"]]
    /\ UNCHANGED <<images, handlers, content,
                   build, library, built_from, source, thumbs, clock, resp>>

\* the damaged album.yml is removed; no scan is in progress
RestoreManifest ==
    /\ build.pc \in {"idle", "failed"}
    /\ _load_yaml_raises(disk, Damaged)
    /\ disk' = [disk EXCEPT ![Damaged] =
                  [@ EXCEPT !.isfile = FALSE, !.yaml = "mapping"]]
    /\ UNCHANGED <<images, handlers, content,
                   build, library, built_from, source, thumbs, clock, resp>>

\* GET /album/<album> by current_user: album.html lists the sub-albums
\* through app.config['library']
get_album(current_user, album) ==
    /\ Published
    /\ resp' = [kind |-> "album", by |-> current_user, album |-> album,
                reloading |-> (build.pc = "traverse"),
                subalbums |-> getAlbumSubAlbums(library, album, current_user)]
    /\ UNCHANGED <<images, handlers, content,
                   disk, build, library, built_from, source, thumbs, clock>>

InitReload ==
    /\ disk \in { DiskOf(S) : S \in SUBSET EditSlots }
    /\ build = Idle
    /\ library = NoLibrary
    /\ built_from = disk
    /\ source = << >>
    /\ thumbs = << >>
    /\ clock = 1
    /\ resp = NoResponse
    /\ images = << >>
    /\ handlers = << >>
    /\ content = << >>

NextReload ==
    \/ Start
    \/ TraverseStep
    \/ library_setup
    \/ \E current_user \in Visitors : reload(current_user)
    \/ \E s \in EditSlots : EditManifest(s)
    \/ DamageManifest
    \/ RestoreManifest
    \/ \E current_user \in Visitors : \E album \in Pages :
         get_album(current_user, album)

SpecReload == InitReload /\ [][NextReload]_vars

----------------------------------------------------------------------------
(* Serving thumbnails and display images (src/app.py)                      *)

\* the medium that is requested
Photo == Medium(<<"a", "c">>, "m", ".jpg")

ThumbnailPaths(media) ==
    { _absolute_path_to_thumbnail(h, m) : h \in {thumb_height, display_height},
                                          m \in media }

\* what getThumbnail and getDisplay return: a thumbnail path, or None; or
\* they return nothing because the Thumbnailer raised
Returned(thumbnail_path) == [none |-> FALSE, path |-> thumbnail_path]
ReturnedNone == [none |-> TRUE]
ReturnedError == [none |-> TRUE, raised |-> TRUE]

\* Library.getThumbnail / Library.getDisplay followed by send_file: the
\* Thumbnailer of the given height is called only if userCanGetMedium holds;
\* otherwise the method returns None. When the Thumbnailer raises, the
\* handler fails: no path is returned and no file is written. generated:
\* _generate_thumbnail has saved the file; original_mtime, thumbnail_mtime:
\* the times that __call__ read. The requests of this specification are
\* handled one at a time; SpecConcurrent takes the same code step by step.
Serve(kind, height, current_user, medium) ==
    /\ Published
    /\ medium \in DOMAIN source
    /\ medium \in DOMAIN images
    /\ IF userCanGetMedium(library, medium, current_user)
       THEN /\ thumbs' = Thumbnailer(thumbs, source, images, height, medium,
                                     clock)
            /\ resp' = [kind |-> kind, by |-> current_user, medium |-> medium,
                        result |->
                          IF Thumbnailer_raises(thumbs, source, images, height,
                                                medium)
                          THEN ReturnedError
                          ELSE Returned(
                                 _absolute_path_to_thumbnail(height, medium)),
                        generated |->
                          /\ ~Fresh(thumbs, source, height, medium)
                          /\ ~Thumbnailer_raises(thumbs, source, images,
                                                 height, medium),
                        original_mtime |-> source[medium],
                        thumbnail_mtime |->
                          thumbs[_absolute_path_to_thumbnail(height, medium)]]
       ELSE /\ thumbs' = thumbs
            /\ resp' = [kind |-> kind, by |-> current_user, medium |-> medium,
                        result |-> ReturnedNone, generated |-> FALSE,
                        original_mtime |-> 0, thumbnail_mtime |-> 0]
    /\ UNCHANGED <<images, handlers, content,
                   disk, build, library, built_from, source, clock>>

\* GET /thumbnail/<medium>
get_thumbnail(current_user, medium) ==
    Serve("thumbnail", thumb_height, current_user, medium)

\* GET /display/<medium>
get_display(current_user, medium) ==
    Serve("display", display_height, current_user, medium)

\* time passes
Tick ==
    /\ clock < MaxClock
    /\ clock' = clock + 1
    /\ UNCHANGED <<images, handlers, content,
                   disk, build, library, built_from, source, thumbs, resp>>

\* a medium is rewritten under original_dir
TouchSource(medium) ==
    /\ medium \in DOMAIN source
    /\ source[medium] < clock
    /\ source' = [source EXCEPT ![medium] = clock]
    /\ UNCHANGED <<images, handlers, content,
                   disk, build, library, built_from, thumbs, clock, resp>>

\* the original was last written before the first tick (mtime 0) or within
\* it (mtime 1)
InitMedia ==
    /\ disk \in { DiskOf(S) : S \in SlotSetsUpTo(1) }
    /\ build = Idle
    /\ library = NoLibrary
    /\ built_from = disk
    /\ source \in [{Photo} -> {0, 1}]
    /\ thumbs = [t \in ThumbnailPaths({Photo}) |-> 0]
    /\ clock = 1
    /\ resp = NoResponse
    /\ images \in [{Photo} -> ServedImages]
    /\ handlers = << >>
    /\ content = << >>

NextMedia ==
    \/ Start
    \/ TraverseStep
    \/ library_setup
    \/ \E current_user \in Visitors : get_thumbnail(current_user, Photo)
    \/ \E current_user \in Visitors : get_display(current_user, Photo)
    \/ Tick
    \/ TouchSource(Photo)

SpecMedia == InitMedia /\ [][NextMedia]_vars

----------------------------------------------------------------------------
(* Building from directories that hold files, names and broken manifests   *)

\* the longest list of files of one directory
MaxFiles == 2

\* the files of a directory: one basename with every extension
FileNames == [stem : {"m"}, ext : Exts]

\* the lists of at most n distinct files, in every order of enumeration
RECURSIVE FileListsUpTo(_)
FileListsUpTo(n) ==
    IF n = 0 THEN { << >> }
    ELSE LET T == FileListsUpTo(n - 1)
             longer == { Append(t, f) : t \in { x \in T : Len(x) = n - 1 },
                                        f \in FileNames }
         IN  T \cup { x \in longer : \A i, j \in 1 .. Len(x) :
                                       i # j => x[i] # x[j] }

ListingGrants ==
    { {}, { [dir |-> <<"a", "c", "e">>, kind |-> "u", who |-> "alice"] } }

\* a/c holds files and, at any place among them, an album.yml that grants
\* nothing; alice is granted a/c/e below it
MediaDisks ==
    UNION { { [DiskOf({ [dir |-> <<"a", "c", "e">>, kind |-> "u",
                          who |-> "alice"] })
                 EXCEPT ![<<"a", "c">>].isfile = TRUE,
                        ![<<"a", "c">>].files = fs,
                        ![<<"a", "c">>].yml_at = k] : k \in 0 .. Len(fs) } :
            fs \in FileListsUpTo(MaxFiles) }

\* the album.yml of one directory has a name: key
NamedDisks ==
    { [DiskOf(S) EXCEPT ![A].isfile = TRUE, ![A].name = "Holidays"] :
      S \in ListingGrants, A \in AllDirs }

\* the album.yml of one directory is empty or is not YAML
BrokenDisks ==
    { [DiskOf(S) EXCEPT ![A].isfile = TRUE, ![A].yaml = k] :
      S \in ListingGrants, A \in AllDirs, k \in {"malformed", "empty"} }

InitListing ==
    /\ disk \in MediaDisks \cup NamedDisks \cup BrokenDisks
    /\ build = Idle
    /\ library = NoLibrary
    /\ built_from = disk
    /\ source = << >>
    /\ thumbs = << >>
    /\ clock = 1
    /\ resp = NoResponse
    /\ images = << >>
    /\ handlers = << >>
    /\ content = << >>

NextListing ==
    \/ Start
    \/ TraverseStep
    \/ library_setup

SpecListing == InitListing /\ [][NextListing]_vars

----------------------------------------------------------------------------
(* Requests for one thumbnail handled at the same time                     *)

\* the requests in flight at once
MaxHandlers == 2

Handlers == 1 .. MaxHandlers

\* the cache file all the requests are for
Thumb == _absolute_path_to_thumbnail(thumb_height, Photo)

\* pc: where the request is in Thumbnailer.__call__; original_mtime: the
\* local variable; returned: what the file held when its path was returned,
\* or that None was returned, or that the call raised
NoHandler == [pc |-> "idle", original_mtime |-> 0, returned |-> "nothing"]

\* Library.getThumbnail up to line 92 of Thumbnailer.__call__: the access
\* test, then original_mtime = original_path.mtime
Thumbnailer_call(i, current_user) ==
    /\ Published
    /\ handlers[i].pc = "idle"
    /\ handlers' = [handlers EXCEPT ![i] =
          IF userCanGetMedium(library, Photo, current_user)
          THEN [pc |-> "test", original_mtime |-> source[Photo],
                returned |-> "nothing"]
          ELSE [pc |-> "done", original_mtime |-> 0, returned |-> None]]
    /\ UNCHANGED <<images, content, disk, build, library, built_from, source,
                   thumbs, clock, resp>>

\* line 98: if thumbnail_path.isfile() and thumbnail_path.mtime >
\* original_mtime, return thumbnail_path
Thumbnailer_test(i) ==
    /\ handlers[i].pc = "test"
    /\ handlers' = [handlers EXCEPT ![i] =
          IF Fresh(thumbs, [m \in {Photo} |-> handlers[i].original_mtime],
                   thumb_height, Photo)
          THEN [@ EXCEPT !.pc = "done", !.returned = content[Thumb]]
          ELSE [@ EXCEPT !.pc = "generate"]]
    /\ UNCHANGED <<images, content, disk, build, library, built_from, source,
                   thumbs, clock, resp>>

\* _generate_thumbnail up to the start of rotated.save(thumbnail_path): the
\* file is created, or truncated, at its final path; when exif.get raises,
\* the request ends there and no file is touched
save_open(i) ==
    /\ handlers[i].pc = "generate"
    /\ IF _generate_thumbnail(images[Photo], thumb_height).raised
       THEN /\ handlers' = [handlers EXCEPT ![i] =
                  [@ EXCEPT !.pc = "done", !.returned = "raised"]]
            /\ UNCHANGED <<thumbs, content>>
       ELSE /\ handlers' = [handlers EXCEPT ![i].pc = "save"]
            /\ thumbs' = [thumbs EXCEPT ![Thumb] = clock]
            /\ content' = [content EXCEPT ![Thumb] = "partial"]
    /\ UNCHANGED <<images, disk, build, library, built_from, source, clock,
                   resp>>

\* the end of rotated.save and the return of thumbnail_path: the file is
\* whole, unless another request that opened it is still writing, in which
\* case what it holds depends on how far each of the two has written
save_close(i) ==
    /\ handlers[i].pc = "save"
    /\ \E written \in IF \E j \in Handlers \ {i} : handlers[j].pc = "save"
                       THEN {"partial", "complete"}
                       ELSE {"complete"} :
         /\ content' = [content EXCEPT ![Thumb] = written]
         /\ handlers' = [handlers EXCEPT ![i] =
               [@ EXCEPT !.pc = "done", !.returned = written]]
    /\ thumbs' = [thumbs EXCEPT ![Thumb] = clock]
    /\ UNCHANGED <<images, disk, build, library, built_from, source, clock,
                   resp>>

\* send_file, or the failure of the handler: the request is over
send_file(i) ==
    /\ handlers[i].pc = "done"
    /\ handlers' = [handlers EXCEPT ![i] = NoHandler]
    /\ UNCHANGED <<images, content, disk, build, library, built_from, source,
                   thumbs, clock, resp>>

InitConcurrent ==
    /\ disk = DiskOf({ [dir |-> <<"a", "c", "e">>, kind |-> "u", who |-> "alice"] })
    /\ build = Idle
    /\ library = NoLibrary
    /\ built_from = disk
    /\ source \in [{Photo} -> {0, 1}]
    /\ thumbs = [t \in ThumbnailPaths({Photo}) |-> 0]
    /\ clock = 1
    /\ resp = NoResponse
    /\ images \in [{Photo} -> ServedImages]
    /\ handlers = [i \in Handlers |-> NoHandler]
    /\ content = [t \in ThumbnailPaths({Photo}) |-> "absent"]

NextConcurrent ==
    \/ Start
    \/ TraverseStep
    \/ library_setup
    \/ \E i \in Handlers : \E current_user \in Visitors :
         Thumbnailer_call(i, current_user)
    \/ \E i \in Handlers : Thumbnailer_test(i)
    \/ \E i \in Handlers : save_open(i)
    \/ \E i \in Handlers : save_close(i)
    \/ \E i \in Handlers : send_file(i)
    \/ Tick
    \/ TouchSource(Photo)

SpecConcurrent == InitConcurrent /\ [][NextConcurrent]_vars

----------------------------------------------------------------------------
(* Generating a thumbnail from what the image holds                        *)

\* what a file under thumbnail_dir holds: nothing, or the thumbnail made
\* of the image of a medium
NoImage == [none |-> TRUE]
ImageOf(relative_path) == [none |-> FALSE, of |-> relative_path]

\* Thumbnailer.__call__ on a medium whose file is an image: the cached file
\* is returned if it is fresh, and otherwise generated from the original
\* and saved at thumbnail_path; when the generation raises, nothing is
\* written and no path is returned
Thumbnailer__call__(height, relative_path) ==
    /\ relative_path \in DOMAIN images
    /\ IF Fresh(thumbs, source, height, relative_path)
       THEN /\ resp' = [kind |-> "cached", height |-> height,
                        medium |-> relative_path]
            /\ thumbs' = thumbs
            /\ content' = content
       ELSE LET generated == _generate_thumbnail(images[relative_path], height)
                thumbnail_path ==
                  _absolute_path_to_thumbnail(height, relative_path)
            IN  /\ resp' = [kind |-> "generate", height |-> height,
                            medium |-> relative_path, outcome |-> generated]
                /\ thumbs' = IF generated.raised THEN thumbs
                             ELSE Thumbnailer(thumbs, source, images, height,
                                              relative_path, clock)
                /\ content' = IF generated.raised THEN content
                              ELSE [content EXCEPT ![thumbnail_path] =
                                      ImageOf(relative_path)]
    /\ UNCHANGED <<images, handlers, disk, build, library, built_from,
                   source, clock>>

InitExif ==
    /\ disk = DiskOf({})
    /\ build = Idle
    /\ library = NoLibrary
    /\ built_from = disk
    /\ source = [m \in {Photo} |-> 0]
    /\ thumbs = [t \in ThumbnailPaths({Photo}) |-> 0]
    /\ clock = 1
    /\ resp = NoResponse
    /\ images \in [{Photo} -> Images]
    /\ handlers = << >>
    /\ content = [t \in ThumbnailPaths({Photo}) |-> NoImage]

NextExif ==
    \E height \in {thumb_height, display_height} :
      Thumbnailer__call__(height, Photo)

SpecExif == InitExif /\ [][NextExif]_vars

----------------------------------------------------------------------------
(* Thumbnails of several media under one thumbnail_dir                     *)

\* two media of one directory that differ by their extension only, and a
\* third one
PhotoJpeg == Medium(<<"a", "c">>, "m", ".jpeg")
OtherPhoto == Medium(<<"a", "c">>, "n", ".jpg")
CacheMedia == { Photo, PhotoJpeg, OtherPhoto }

InitCache ==
    /\ disk = DiskOf({})
    /\ build = Idle
    /\ library = NoLibrary
    /\ built_from = disk
    /\ source = [m \in CacheMedia |-> 0]
    /\ thumbs = [t \in ThumbnailPaths(CacheMedia) |-> 0]
    /\ clock = 1
    /\ resp = NoResponse
    /\ images = [m \in CacheMedia |->
                   [exif |-> Exif(EXIF_ORIENTATION_KEY :> 1),
                    size |-> <<400, 300>>]]
    /\ handlers = << >>
    /\ content = [t \in ThumbnailPaths(CacheMedia) |-> NoImage]

NextCache ==
    \/ \E height \in {thumb_height, display_height} :
         \E relative_path \in CacheMedia :
           Thumbnailer__call__(height, relative_path)
    \/ Tick
    \/ \E medium \in CacheMedia : TouchSource(medium)

SpecCache == InitCache /\ [][NextCache]_vars

----------------------------------------------------------------------------
(* What the manifests say, independently of the construction               *)

Albums == DOMAIN library.node

\* the proper ancestors of an album, root included
Ancestors(A) == { SubSeq(A, 1, k) : k \in 0 .. (Len(A) - 1) }

PathTo(A) == Ancestors(A) \cup {A}

\* the albums of the subtree of A, A included
Subtree(A) ==
    { s \in AllDirs : Len(s) >= Len(A) /\ SubSeq(s, 1, Len(A)) = A }

NonAdmins == { p \in AllPrincipals : ~p.admin }

\* users and groups named by the manifests on the path from the root to A
Resolved(d, A) ==
    [users  |-> UNION { d[B].users : B \in PathTo(A) },
     groups |-> UNION { d[B].groups : B \in PathTo(A) }]

----------------------------------------------------------------------------
(* Claims                                                                  *)

\* C1 -- Traversal completeness: in every published tree, a principal that
\* can browse an album can traverse every ancestor of that album, root
\* included; the same holds of the user/groups variant of tree.py.
C1_TraversalCompleteness ==
    Published =>
      \A A \in Albums : \A p \in AllPrincipals :
        /\ userCanBrowseAlbum(library, A, p) =>
             \A B \in Ancestors(A) : userCanTraverseAlbum(library, B, p)
        /\ is_browsable(library, A, p.email, p.groups) =>
             \A B \in Ancestors(A) :
               is_traversable(library, B, p.email, p.groups)

\* C1 witness: a non-admin user browses an album of depth 3 that no ancestor
\* lets them browse, and traverses the two albums above it.
C1_Witness ==
    /\ Published
    /\ \E A \in Albums : \E p \in NonAdmins :
         /\ Len(A) = 3
         /\ userCanBrowseAlbum(library, A, p)
         /\ ~userCanBrowseAlbum(library, Parent(A), p)
         /\ userCanTraverseAlbum(library, Parent(A), p)
         /\ userCanTraverseAlbum(library, Parent(Parent(A)), p)

\* C2 -- Monotonic inheritance: in every published tree the resolved users
\* and groups of a non-root album contain those of its parent.
C2_MonotonicInheritance ==
    Published =>
      \A A \in Albums \ {Root} :
        /\ library.node[Parent(A)].users \subseteq library.node[A].users
        /\ library.node[Parent(A)].groups \subseteq library.node[A].groups

\* C2 witness: a parent with users of its own and a child that adds one.
C2_Witness ==
    /\ Published
    /\ \E A \in Albums \ {Root} :
         /\ library.node[Parent(A)].users # {}
         /\ built_from[A].users # {}
         /\ library.node[A].users # library.node[Parent(A)].users
         /\ library.node[A].users # built_from[A].users

\* C3 -- Traverse without browse: a non-admin user named by the manifest of
\* D and by no manifest above D traverses every non-root proper ancestor of D
\* without being able to browse it; the nodes hold exactly the users and
\* groups of the manifests on their root path.
C3_TraverseWithoutBrowse ==
    Published =>
      /\ \A p \in NonAdmins : \A D \in Albums :
           ( /\ p.email \in built_from[D].users
             /\ \A B \in Ancestors(D) : p.email \notin built_from[B].users )
           => \A A \in Ancestors(D) \ {Root} :
                /\ userCanTraverseAlbum(library, A, p)
                /\ ~userCanBrowseAlbum(library, A, p)
      /\ \A A \in Albums :
           /\ library.node[A].users = Resolved(built_from, A).users
           /\ library.node[A].groups = Resolved(built_from, A).groups

\* C3 witness: a user named at depth 3 only, with two non-root ancestors.
C3_Witness ==
    /\ Published
    /\ \E D \in Albums : \E p \in NonAdmins :
         /\ Len(D) = 3
         /\ p.email \in built_from[D].users
         /\ \A B \in Ancestors(D) : p.email \notin built_from[B].users
         /\ userCanTraverseAlbum(library, Parent(D), p)
         /\ ~userCanBrowseAlbum(library, Parent(D), p)

\* C4 -- No over-granted traversal: a non-admin principal named by no
\* manifest in the subtree of a non-root album A nor above A cannot traverse
\* A, and A is not among the sub-albums listed for them under A's parent.
C4_NoOverGrantedTraversal ==
    Published =>
      \A p \in NonAdmins : \A A \in Albums \ {Root} :
        (\A B \in Subtree(A) \cup Ancestors(A) : p.email \notin built_from[B].users)
        => /\ ~userCanTraverseAlbum(library, A, p)
           /\ LET listed == getAlbumSubAlbums(library, Parent(A), p)
              IN  listed = None
                    \/ \A i \in 1 .. Len(listed) : listed[i] # A

\* C4 witness: alice is named below a and bob nowhere near it; alice is
\* listed a and a/c, bob gets the empty list under the root and cannot
\* traverse a/c although a sibling subtree names him.
C4_Witness ==
    /\ Published
    /\ \E alice, bob \in NonAdmins :
         /\ alice.email = "alice" /\ bob.email = "bob"
         /\ built_from[<<"a", "c">>].users = {"alice"}
         /\ built_from[<<"a", "d">>].users = {"bob"}
         /\ getAlbumSubAlbums(library, Root, alice) = << <<"a">> >>
         /\ getAlbumSubAlbums(library, <<"a">>, bob) = << <<"a", "d">> >>
         /\ ~userCanTraverseAlbum(library, <<"a", "c">>, bob)
         /\ ~userCanBrowseAlbum(library, <<"a", "c">>, bob)
         /\ ~userCanTraverseAlbum(library, <<"b">>, bob)

\* C5 -- Fail closed: a non-admin principal browses a non-root album only if
\* a manifest on the album's root path lists their identity or one of their
\* groups; with no album.yml on the whole root path nobody but an administrator
\* browses it; a principal that no manifest names is allowed nothing below
\* the root.
C5_FailClosed ==
    Published =>
      \A p \in NonAdmins : \A A \in Albums \ {Root} :
        /\ userCanBrowseAlbum(library, A, p) =>
             \E B \in PathTo(A) :
               \/ p.email \in built_from[B].users
               \/ (p.groups \cap built_from[B].groups) # {}
        /\ (\A B \in PathTo(A) : ~built_from[B].isfile)
           => ~userCanBrowseAlbum(library, A, p)
        /\ (p.email = "nobody" /\ p.groups = {}) =>
             /\ ~userCanBrowseAlbum(library, A, p)
             /\ ~userCanTraverseAlbum(library, A, p)
             /\ ~is_browsable(library, A, p.email, p.groups)
             /\ ~is_traversable(library, A, p.email, p.groups)

\* C5 witness: an album without any album.yml on its root path next to a tree
\* that grants something elsewhere, and an album browsable by a named user.
C5_Witness ==
    /\ Published
    /\ \E A, C \in Albums \ {Root} : \E p \in NonAdmins :
         /\ \A B \in PathTo(A) : ~built_from[B].isfile
         /\ \E B \in Subtree(A) \ {A} : built_from[B].users # {}
         /\ userCanBrowseAlbum(library, C, p)
         /\ ~userCanBrowseAlbum(library, A, p)

\* C6 -- isAllowed is true exactly when the principal's identity is in the
\* set's users, or the principal is an administrator, or one of the
\* principal's groups is in the set's groups.
C6_IsAllowedThreeWay ==
    Published =>
      \A A \in Albums \ {Root} : \A p \in AllPrincipals :
        userIsAllowed(library.node[A], p)
          <=> \/ p.email \in library.node[A].users
              \/ p.admin
              \/ (p.groups \cap library.node[A].groups) # {}

\* C7 -- Medium visibility follows the containing album: a thumbnail or
\* display request returns a path only to a principal that can browse the
\* medium's album; for any other principal it returns nothing and the
\* Thumbnailer is not called, so no cache file is written.
C7_MediumFollowsAlbum ==
    resp.kind \in {"thumbnail", "display"} =>
      /\ ~resp.result.none =>
           userCanBrowseAlbum(library, resp.medium.dir, resp.by)
      /\ ~userCanBrowseAlbum(library, resp.medium.dir, resp.by) =>
           (resp.result = ReturnedNone /\ ~resp.generated)
      /\ resp.generated =>
           thumbs[_absolute_path_to_thumbnail(
                    IF resp.kind = "thumbnail" THEN thumb_height
                    ELSE display_height, resp.medium)] > 0

\* C7 witness: a principal that traverses the album without browsing it is
\* refused the thumbnail although the cache file has been generated for
\* somebody else.
C7_Witness ==
    /\ resp.kind = "thumbnail"
    /\ resp.result = ReturnedNone
    /\ ~resp.by.admin
    /\ userCanTraverseAlbum(library, resp.medium.dir, resp.by)
    /\ thumbs[_absolute_path_to_thumbnail(thumb_height, resp.medium)] > 0
    /\ thumbs[_absolute_path_to_thumbnail(display_height, resp.medium)] = 0

\* the tree a complete construction yields from the manifests d: every
\* directory is an album holding the entries of its root path, and the edge
\* into an album holds the entries of the album's whole subtree
CompleteTree(d) ==
    [node |-> [A \in AllDirs |-> Resolved(d, A)],
     edge |-> [e \in { <<Parent(A), A>> : A \in AllDirs \ {Root} } |->
                 [users  |-> UNION { Resolved(d, B).users : B \in Subtree(e[2]) },
                  groups |-> UNION { Resolved(d, B).groups : B \in Subtree(e[2]) }]]]

\* C8 -- Atomic rebuild: whatever a reload is doing, app.config['library']
\* is a completely built tree of the manifests it was read from, and every
\* listing served is the listing of a completely built tree.
C8_AtomicRebuild ==
    /\ Published =>
         /\ library.node = CompleteTree(built_from).node
         /\ library.edge = CompleteTree(built_from).edge
    /\ resp.kind = "album" =>
         \E S \in SUBSET EditSlots :
           resp.subalbums =
             getAlbumSubAlbums(CompleteTree(DiskOf(S)), resp.album, resp.by)

\* C8 witness: a listing was served while a reload was constructing, from
\* edited manifests, a tree that is still missing albums.
C8_Witness ==
    /\ Published
    /\ build.pc = "traverse" /\ ~Constructed(build)
    /\ DOMAIN build.node # AllDirs
    /\ built_from # disk
    /\ resp.kind = "album" /\ resp.reloading
    /\ resp.subalbums # None /\ resp.subalbums # << >>

\* C9 -- After process start the tree is replaced only by a reload that an
\* administrator triggered.
C9_ReloadAdminOnly ==
    [][(library # NoLibrary /\ library' # library) => build.by.admin]_vars

\* C10 -- Idempotent, order-independent rebuild: a Library constructed from
\* the manifests the published one was read from has the same users and
\* groups on every album and every edge, whatever the enumeration orders.
C10_IdempotentRebuild ==
    (Published /\ Constructed(build) /\ built_from = disk) =>
      /\ build.node = library.node
      /\ build.edge = library.edge

\* C10 witness: a second build that visited the albums in another order than
\* the published one, over manifests that make back-propagation act twice.
C10_Witness ==
    /\ Published /\ Constructed(build) /\ built_from = disk
    /\ build.order # library.order
    /\ \E A \in Albums \ {Root} :
         Cardinality(library.edge[<<Parent(A), A>>].users) >=
           Cardinality(library.node[A].users) + 2

\* the direct children of an album in the directory tree
Children(A) == { c \in AllDirs \ {Root} : Parent(c) = A }

\* C11 -- getAlbumSubAlbums: in every published tree and for every
\* principal, the result is None when the principal cannot traverse the
\* album; otherwise it lists, once each and in increasing order of path,
\* exactly the direct children that the principal can traverse.
C11_SubAlbumsListing ==
    Published =>
      \A A \in Albums : \A p \in AllPrincipals :
        LET r == getAlbumSubAlbums(library, A, p)
        IN  IF ~userCanTraverseAlbum(library, A, p) THEN r = None
            ELSE /\ r # None
                 /\ { r[i] : i \in 1 .. Len(r) } =
                      { c \in Children(A) : userCanTraverseAlbum(library, c, p) }
                 /\ \A i, j \in 1 .. Len(r) :
                      i < j => NameRank[basename(r[i])] < NameRank[basename(r[j])]

\* a principal is denied on one album and, on another that it can traverse,
\* is shown one child while another child is withheld
C11_Witness ==
    /\ Published
    /\ \E p \in NonAdmins :
         /\ \E A \in Albums : getAlbumSubAlbums(library, A, p) = None
         /\ \E A \in Albums :
              LET r == getAlbumSubAlbums(library, A, p)
              IN  /\ r # None
                  /\ Len(r) >= 1
                  /\ Len(r) < Cardinality(Children(A))

\* C12 -- pathToRoot denial: in every published tree and for every
\* principal, getPathToAlbum returns None whenever some album on the path
\* from the root to the album is not traversable by the principal, and
\* every album of a path it returns is traversable by the principal.
C12_PathDenial ==
    Published =>
      \A A \in Albums : \A p \in AllPrincipals :
        LET r == getPathToAlbum(library, A, p)
        IN  /\ (\E B \in PathTo(A) : ~userCanTraverseAlbum(library, B, p))
                 => r = None
            /\ r # None =>
                 \A i \in 1 .. Len(r) : userCanTraverseAlbum(library, r[i][1], p)

\* a principal gets the path to an album two levels down and is denied the
\* path to another album
C12_Witness ==
    /\ Published
    /\ \E p \in NonAdmins :
         /\ \E A \in Albums : getPathToAlbum(library, A, p) = None
         /\ \E A \in Albums :
              LET r == getPathToAlbum(library, A, p)
              IN  r # None /\ Len(r) >= 2

\* C13 -- pathToRoot result: in every published tree, a path returned by
\* getPathToAlbum lists the albums from below the root down to the album,
\* in that order, each paired with the name attribute of its node (the
\* name: of its album.yml when there is one, its basename otherwise); for
\* the root the list is empty.
C13_PathDisplayNames ==
    Published =>
      \A A \in Albums : \A p \in AllPrincipals :
        LET r == getPathToAlbum(library, A, p)
        IN  r # None =>
              /\ Len(r) = Len(A)
              /\ \A i \in 1 .. Len(r) :
                   r[i] = <<SubSeq(A, 1, i), library.name[SubSeq(A, 1, i)]>>

\* C14 -- Manifest fallback: whatever the album.yml files hold, the
\* construction of the library does not fail.
C14_ManifestFallback == build.pc # "failed"

\* the extensions on disk that are, whatever their case, one of .jpg, .jpeg,
\* .png, .mp4, .webm, .ogv
AnyCase == { ".jpg", ".JPG", ".jpeg", ".png", ".Png", ".mp4", ".webm", ".ogv",
             ".OGV" }

\* C18 -- Classifier exhaustiveness: in every published tree, the media of
\* an album are the files of its directory whose extension is, whatever its
\* case, one of the six; album.yml and the subdirectories are not among
\* them.
C18_ClassifierExhaustive ==
    Published =>
      \A A \in Albums :
        LET media == library.media[A]
            fs    == built_from[A].files
        IN  /\ \A i \in 1 .. Len(fs) :
                 fs[i].ext \in AnyCase =>
                   \E j \in 1 .. Len(media) :
                     media[j] = Medium(A, fs[i].stem, fs[i].ext)
            /\ \A j \in 1 .. Len(media) :
                 /\ media[j].ext \in AnyCase
                 /\ \E i \in 1 .. Len(fs) :
                      media[j] = Medium(A, fs[i].stem, fs[i].ext)
                 /\ media[j] # Medium(A, ALBUM_YML.stem, ALBUM_YML.ext)
                 /\ \A c \in Children(A) : media[j] # Medium(A, basename(c), "")

\* an album with an album.yml and subdirectories lists a file whose
\* extension is in capitals and leaves out another file
C18_Witness ==
    /\ Published
    /\ \E A \in Albums :
         /\ built_from[A].isfile
         /\ Children(A) # {}
         /\ Len(library.media[A]) = 1
         /\ library.media[A][1].ext \in {".JPG", ".Png", ".OGV"}
         /\ Len(built_from[A].files) = 2

\* who may browse an album, read from the manifests
Browsable(d, A, p) ==
    A = Root \/ p.admin \/ p.email \in Resolved(d, A).users

\* C20 -- getAlbumMedia: in every published tree and for every principal,
\* the result is None when the principal cannot browse the album, and
\* otherwise the supported files of the directory, all of them, in the
\* order in which the directory lists them.
C20_MediaListing ==
    Published =>
      \A A \in Albums : \A p \in AllPrincipals :
        LET r == getAlbumMedia(library, A, p)
        IN  IF ~Browsable(built_from, A, p) THEN r = None
            ELSE /\ r = library.media[A]
                 /\ r = joinpath(A, SelectSeq(built_from[A].files,
                                              LAMBDA f : f.ext \in AnyCase))

\* an album of two media is denied to a principal that can traverse it and
\* is listed in full to another principal
C20_Witness ==
    /\ Published
    /\ \E A \in Albums : \E p, q \in AllPrincipals :
         /\ userCanTraverseAlbum(library, A, p)
         /\ getAlbumMedia(library, A, p) = None
         /\ getAlbumMedia(library, A, q) # None
         /\ Len(getAlbumMedia(library, A, q)) = 2

\* the thumbnail height a kind of request is served at
HeightOf(kind) == IF kind = "thumbnail" THEN thumb_height ELSE display_height

\* C15 -- Thumbnail freshness rule: every request that is let through to
\* the Thumbnailer returns the cache path of its key; it leaves the cache
\* file as it is when the file exists with a modification time strictly
\* greater than the original's, and in every other case (no file, a file
\* as old as the original or older) it writes the file anew at the time of
\* the request before it returns the path.
C15_FreshnessRule ==
    [][ ( /\ resp' # resp \/ thumbs' # thumbs
          /\ resp'.kind \in {"thumbnail", "display"}
          /\ userCanGetMedium(library, resp'.medium, resp'.by) ) =>
          LET t == _absolute_path_to_thumbnail(HeightOf(resp'.kind), resp'.medium)
          IN  /\ resp'.result = Returned(t)
              /\ \A u \in DOMAIN thumbs \ {t} : thumbs'[u] = thumbs[u]
              /\ IF thumbs[t] > 0 /\ thumbs[t] > source[resp'.medium]
                 THEN thumbs'[t] = thumbs[t] /\ ~resp'.generated
                 ELSE thumbs'[t] = clock /\ resp'.generated ]_vars

\* C16 (as stated) -- Stable cache hit: once a request has generated the
\* cache file of a key, no step taken while the original still has the
\* modification time which that request read changes the cache file,
\* whenever the request came relative to the writing of the original.
C16_StableCacheHit ==
    [][ \A kind \in {"thumbnail", "display"} :
          LET t == _absolute_path_to_thumbnail(HeightOf(kind), Photo)
          IN  ( /\ resp.kind = kind
                /\ resp.generated
                /\ resp.original_mtime = source[Photo]
                /\ source' = source )
              => thumbs'[t] = thumbs[t] ]_vars

\* C16 (amended) -- a cache file whose modification time is strictly
\* greater than the original's is returned as it is, and left unmodified,
\* by every request made while the original keeps its modification time.
C16_StableCacheHitWhenNewer ==
    [][ \A kind \in {"thumbnail", "display"} :
          LET t == _absolute_path_to_thumbnail(HeightOf(kind), Photo)
          IN  (thumbs[t] > source[Photo] /\ source' = source) =>
                /\ thumbs'[t] = thumbs[t]
                /\ (resp' # resp /\ resp'.kind = kind /\ ~resp'.result.none)
                     => (resp'.result = Returned(t) /\ ~resp'.generated) ]_vars

\* a request has found the cache file of an earlier request, strictly newer
\* than the original, at a later time
C16_Witness ==
    /\ resp.kind = "thumbnail"
    /\ ~resp.result.none
    /\ ~resp.generated
    /\ resp.thumbnail_mtime > resp.original_mtime
    /\ resp.original_mtime = source[resp.medium]
    /\ clock > resp.thumbnail_mtime
    /\ thumbs[_absolute_path_to_thumbnail(thumb_height, resp.medium)]
         = resp.thumbnail_mtime

\* C17 -- Concurrent generation is safe: whatever requests for one key are
\* in flight, a request that returns the path of the cache file returns
\* the path of a whole image, never of a file that is being written.
C17_ConcurrentGenerationSafe ==
    \A i \in Handlers :
      (handlers[i].pc = "done" /\ handlers[i].returned \notin {None, "raised"})
        => handlers[i].returned = "complete"

\* C19 -- Orientation default: a generation maps the orientation 1 to
\* (0 degrees, landscape), 3 to (180, landscape), 6 to (270, portrait) and
\* 8 to (90, portrait), and for an image without the orientation tag, an
\* image without any EXIF data included, it completes with 0 degrees and
\* the landscape size.
C19_OrientationDefault ==
    resp.kind = "generate" =>
      LET original == images[resp.medium]
          tagged   == /\ ~original.exif.none
                      /\ EXIF_ORIENTATION_KEY \in DOMAIN original.exif.tags
          o        == original.exif.tags[EXIF_ORIENTATION_KEY]
          made     == <<resp.outcome.angle, resp.outcome.landscape>>
      IN  IF ~tagged
          THEN /\ ~resp.outcome.raised
               /\ made = <<0, TRUE>>
               /\ resp.outcome.size =
                    <<(resp.height * original.size[1]) \div original.size[2],
                      resp.height>>
          ELSE /\ ~resp.outcome.raised
               /\ o = 1 => made = <<0, TRUE>>
               /\ o = 3 => made = <<180, TRUE>>
               /\ o = 6 => made = <<270, FALSE>>
               /\ o = 8 => made = <<90, FALSE>>

\* C21 -- getSiblings: in every published tree and for every album but the
\* root, the result lists, once each and in increasing order of path, all
\* the children of the album's parent, the album among them, whoever may
\* traverse them.
C21_SiblingsUnfiltered ==
    Published =>
      \A A \in Albums \ {Root} :
        LET r == getSiblings(library, A)
        IN  /\ { r[i] : i \in 1 .. Len(r) } = Children(Parent(A))
            /\ \E i \in 1 .. Len(r) : r[i] = A
            /\ \A i, j \in 1 .. Len(r) :
                 i < j => NameRank[basename(r[i])] < NameRank[basename(r[j])]

\* the siblings of an album that a principal can traverse include an album
\* that this principal cannot traverse
C21_Witness ==
    /\ Published
    /\ \E p \in NonAdmins : \E A \in Albums \ {Root} :
         LET r == getSiblings(library, A)
         IN  /\ userCanTraverseAlbum(library, A, p)
             /\ Len(r) >= 2
             /\ \E i \in 1 .. Len(r) : ~userCanTraverseAlbum(library, r[i], p)

\* C22 (as stated) -- Edge creation: the edge that a step of the
\* construction creates for a subdirectory holds the users and groups of
\* the subdirectory's own album.yml, and not those merged with what the
\* parent passes down.
C22_EdgeOwnSets ==
    [][ \A e \in DOMAIN build'.edge \ DOMAIN build.edge :
          /\ build'.edge[e].users = disk[e[2]].users
          /\ build'.edge[e].groups = disk[e[2]].groups ]_vars

\* C22 (amended) -- the edge that a step of the construction creates for a
\* subdirectory holds the merged configuration of the subdirectory: the
\* users and groups of every album.yml from the root down to it.
C22_EdgeMergedSets ==
    [][ \A e \in DOMAIN build'.edge \ DOMAIN build.edge :
          /\ build'.edge[e] = build'.node[e[2]]
          /\ build'.edge[e] = Resolved(disk, e[2]) ]_vars

\* the edge just created for a subdirectory that has a manifest of its own
\* holds a user whom only a directory above it names
C22_Witness ==
    /\ build.pc = "traverse"
    /\ Len(build.order) >= 2
    /\ LET subalbum == build.order[Len(build.order)]
           e        == <<Parent(subalbum), subalbum>>
       IN  /\ e \in DOMAIN build.edge
           /\ disk[subalbum].users # {}
           /\ build.edge[e].users # disk[subalbum].users
           /\ build.edge[e].users = Resolved(disk, subalbum).users

\* C23 -- Exact traversal sets: in every published tree, the users and the
\* groups on the edge into an album are those of the resolved sets of all
\* the albums of its subtree, itself included; and at every moment of a
\* construction the sets of an edge are within those of the edge above it,
\* so that a back-propagation which stops at an edge that already has the
\* new principals leaves no higher edge without them.
C23_ExactTraversalSets ==
    /\ Published =>
         \A X \in Albums \ {Root} :
           LET e == library.edge[<<Parent(X), X>>]
           IN  /\ e.users =
                    UNION { Resolved(built_from, B).users : B \in Subtree(X) }
               /\ e.groups =
                    UNION { Resolved(built_from, B).groups : B \in Subtree(X) }
    /\ \A G \in {build, library} :
         \A e \in DOMAIN G.edge :
           e[1] # Root =>
             /\ G.edge[e].users \subseteq G.edge[<<Parent(e[1]), e[1]>>].users
             /\ G.edge[e].groups \subseteq G.edge[<<Parent(e[1]), e[1]>>].groups

\* a principal named in two subtrees of one album: the back-propagation of
\* one of the two stopped at an edge that already had the principal, and
\* the edges up to the root hold it
C23_Witness ==
    /\ Published
    /\ \E u \in Users :
         /\ u \in built_from[<<"a", "c", "e">>].users
         /\ u \in built_from[<<"a", "d">>].users
         /\ u \notin built_from[<<"a">>].users
         /\ u \in library.edge[<<Root, <<"a">>>>].users
         /\ u \in library.edge[<<<<"a">>, <<"a", "d">>>>].users
         /\ u \in library.edge[<<<<"a">>, <<"a", "c">>>>].users

\* C24 -- Cache keys do not collide: the file whose path a call of the
\* Thumbnailer returns for a medium holds the thumbnail of that medium,
\* and of no other medium served from the same thumbnail_dir.
C24_CacheKeysDistinct ==
    (resp.kind = "cached" \/ (resp.kind = "generate" /\ ~resp.outcome.raised))
      => content[_absolute_path_to_thumbnail(resp.height, resp.medium)]
           = ImageOf(resp.medium)

====
